---- MODULE Spec2Model ----
(***************************************************************************)
(* A model of os_calendar_cache.OSCalendarCache: parsing the cached        *)
(* calendar feed into outage records (parse_ical), sorting the records     *)
(* into buckets (sort_outages), rendering the buckets                      *)
(* (create_notifications, notifications_to_xml) and the file handling of   *)
(* one run (get_updates, cache_feed, within_grace_period).                 *)
(*                                                                         *)
(* Python values.  The code is dynamically typed and one field of an       *)
(* outage record, end_time, is an int on one path and a str on another.    *)
(* Such a value is modelled as a tagged record (PyInt, PyStr); the         *)
(* operators on it (PyNeInt, the subtraction in Raises) behave as          *)
(* Python 2 does on the two types.  Every other value has one type and is  *)
(* modelled directly.                                                      *)
(*                                                                         *)
(* References.  sort_outages appends the outage objects themselves to its  *)
(* buckets; a bucket is modelled as the sequence of the positions (in the  *)
(* input list) of the objects it holds.                                    *)
(***************************************************************************)
EXTENDS Integers, Sequences, FiniteSets, TLC

VARIABLES
  clock,           \* the system time, in seconds (time.time())
  settings,        \* self.settings: scope_ahead, scope_past, url_timeout
  fs,              \* the working directory: file name -> file or NoFile
  pc,              \* where the current call is
  pre,             \* fs as it was when the current run of get_updates began
  within_grace,    \* get_updates: within_grace_period
  cached,          \* get_updates: cached
  outages,         \* get_updates: outages (the list parse_ical returned)
  sorted_outages,  \* get_updates: sorted_outages
  notifications,   \* get_updates: notifications
  feed_updated,    \* get_updates: feed_updated
  raised           \* the exception that ended the call, or "none"

vars == <<clock, settings, fs, pc, pre, within_grace, cached, outages,
          sorted_outages, notifications, feed_updated, raised>>

(***************************************************************************)
(* Bounds of the model.                                                    *)
(***************************************************************************)
\* Times of the records handed to sort_outages range over 0..MaxTime.
MaxTime == 2
\* The scope settings range over 0..MaxScope.
MaxScope == 2
\* The lists handed to sort_outages hold at most MaxRecords records.
MaxRecords == 2
\* Wall-clock readings of the feed's date-times range over 0..MaxWall.
MaxWall == 1
\* A feed handed to parse_ical holds at most MaxComponents components.
MaxComponents == 2
\* The 'url_timeout' setting ranges over 1..MaxTimeout.
MaxTimeout == 2
\* The length of the model's minute, in seconds: the times of the model
\* are a few seconds apart, and format_date drops the seconds.
MinuteLength == 2

\* All sequences over S of length at most n.
SeqUpTo(S, n) == UNION {[1..k -> S] : k \in 0..n}

(***************************************************************************)
(* Python values (see the header).                                         *)
(***************************************************************************)
PyInt(n) == [type |-> "int", int |-> n, str |-> ""]
PyStr(s) == [type |-> "str", int |-> 0, str |-> s]

\* v != n for an int n: a str never equals an int.
PyNeInt(v, n) == IF v.type = "int" THEN v.int # n ELSE TRUE

\* abs()
Abs(n) == IF n < 0 THEN -n ELSE n

(***************************************************************************)
(* sort_outages                                                            *)
(***************************************************************************)
\* The value of a local that no call has returned yet (outages, a list in
\* every other state, is <<>> then).
None == [none |-> TRUE]

\* sorted_outages = {'completed': [], 'scheduled': [], 'active': []}
EmptyBuckets == [b \in {"completed", "scheduled", "active"} |-> <<>>]

\* The conditions of one pass of the loop, given an int end_time.
has_started(o, now) == o.start_time - now <= 0
has_ended(o, now) == o.end_time.int - now <= 0
has_end_time(o) == PyNeInt(o.end_time, 0)
within_future_scope(o, now, s) == o.start_time - now < s.scope_ahead
within_past_scope(o, now, s) == Abs(o.end_time.int - now) < s.scope_past

BucketNames == {"active", "completed", "scheduled"}

\* The chain with every branch an "if" of its own (not the code).
Appended_plain_ifs(o, now, s) ==
  {b \in BucketNames :
     \/ /\ b = "active"
        /\ (has_started(o, now) /\ (~has_ended(o, now) \/ ~has_end_time(o)))
        /\ ~o.resolved
     \/ /\ b = "completed"
        /\ ((has_started(o, now) /\ has_ended(o, now)) \/ o.resolved)
        /\ within_past_scope(o, now, s)
     \/ /\ b = "scheduled"
        /\ (~has_started(o, now) /\ ~o.resolved)
        /\ within_future_scope(o, now, s)}

\* The chain with "completed" tested before "active" (not the code).
Appended_completed_first(o, now, s) ==
  IF ((has_started(o, now) /\ has_ended(o, now)) \/ o.resolved)
       /\ within_past_scope(o, now, s)
    THEN {"completed"}
  ELSE IF (has_started(o, now) /\ (~has_ended(o, now) \/ ~has_end_time(o)))
       /\ ~o.resolved
    THEN {"active"}
  ELSE IF (~has_started(o, now) /\ ~o.resolved)
       /\ within_future_scope(o, now, s)
    THEN {"scheduled"}
  ELSE {}

\* The if/elif/elif/else chain: the buckets a record that passed the check
\* is appended to.
Appended(o, now, s) ==
  IF (has_started(o, now) /\ (~has_ended(o, now) \/ ~has_end_time(o)))
       /\ ~o.resolved
    THEN {"active"}
  ELSE IF ((has_started(o, now) /\ has_ended(o, now)) \/ o.resolved)
       /\ within_past_scope(o, now, s)
    THEN {"completed"}
  ELSE IF (~has_started(o, now) /\ ~o.resolved)
       /\ within_future_scope(o, now, s)
    THEN {"scheduled"}
  ELSE {}

\* outage['end_time'] - now, end_time being a str.
StrMinusInt == "TypeError: unsupported operand type(s) for -: 'str' and 'int'"

\* raise Exception("Event can't end without starting!")
CantEnd == "Exception: Event can't end without starting!"

\* The check without its has_end_time conjunct (not the code).
Raises_any_end(o, now) ==
  IF o.end_time.type # "int" THEN StrMinusInt
  ELSE IF has_ended(o, now) /\ ~has_started(o, now) THEN CantEnd
  ELSE "none"

\* What one pass of the loop raises before it reaches the chain.
\* outage['end_time'] - now raises TypeError when end_time is a str.
Raises(o, now) ==
  IF o.end_time.type # "int" THEN StrMinusInt
  ELSE IF has_end_time(o) /\ (has_ended(o, now) /\ ~has_started(o, now))
    THEN CantEnd
  ELSE "none"

\* The loop from position i on, with the buckets filled so far.
RECURSIVE SortLoop(_, _, _, _, _)
SortLoop(os, i, now, s, acc) ==
  IF i > Len(os) THEN [raised |-> "none", sorted |-> acc]
  ELSE IF Raises(os[i], now) # "none"
    THEN [raised |-> Raises(os[i], now), sorted |-> None]
  ELSE SortLoop(os, i + 1, now, s,
                [b \in BucketNames |->
                   IF b \in Appended(os[i], now, s)
                     THEN Append(acc[b], i) ELSE acc[b]])

sort_outages(os, now, s) == SortLoop(os, 1, now, s, EmptyBuckets)

(***************************************************************************)
(* The calendar feed.  A feed is the bytes of the cache file: either not a *)
(* calendar (Calendar.from_ical raises) or the components that             *)
(* ical_feed.walk() yields below the calendar, in document order.  A       *)
(* property of a component is <<>> when the component lacks it             *)
(* (component.get returns None) and <<value>> otherwise.                   *)
(*   A date-time property is [wall, utc]: its wall-clock reading, in       *)
(* seconds, and whether it carries the UTC marker "Z".  A description is   *)
(* the sequence of its words, a summary the sequence of its characters.    *)
(***************************************************************************)
\* dateutil.parser.parse, timetuple(), time.mktime, int(): the tuple holds
\* the wall-clock fields only, and mktime reads it as local time (a host
\* whose zone has no daylight saving time in force).
iso_to_unixtime(isodate) == isodate.wall

\* The 'resolved_pattern' setting.
resolved_pattern == "RESOLVED"

\* regex.search("(.*)(" + resolved_pattern + ")(.*)"): the pattern occurs
\* somewhere in the description.
is_resolved(description) ==
  \E i \in 1..Len(description) : description[i] = resolved_pattern

\* The characters that \w or \s match, among those of the model's titles.
WordOrSpace == {"a", "b", "1", "_", " "}

\* re.sub(r'[^\w\s]', "_", text)
sanitize_text(text) ==
  [i \in 1..Len(text) |-> IF text[i] \in WordOrSpace THEN text[i] ELSE "_"]

\* end_time = 0 (not the code).
ZeroedEndTime_int == PyInt(0)

\* end_time = "0" * 10
ZeroedEndTime == PyStr("0000000000")

\* component.get(...).encode / .to_ical on a missing property.
NoneHasNo(attr) ==
  IF attr = "encode"
    THEN "AttributeError: 'NoneType' object has no attribute 'encode'"
    ELSE "AttributeError: 'NoneType' object has no attribute 'to_ical'"

\* "URL: " + link on a missing URL.
StrPlusNone == "TypeError: cannot concatenate 'str' and 'NoneType' objects"

\* Calendar.from_ical on bytes that are no calendar.
NotICal == "ValueError"

\* The first failure of the loop body on an event, or "none".
EventRaises(c) ==
  IF c.description = <<>> THEN NoneHasNo("encode")
  ELSE IF c.dtend = <<>> THEN NoneHasNo("to_ical")
  ELSE IF c.url = <<>> THEN StrPlusNone
  ELSE IF c.last_modified = <<>> THEN NoneHasNo("to_ical")
  ELSE IF c.dtstart = <<>> THEN NoneHasNo("to_ical")
  ELSE IF c.summary = <<>> THEN NoneHasNo("encode")
  ELSE "none"

\* The record appended for an event that has every property.
EventRecord(c) ==
  LET end_time == iso_to_unixtime(c.dtend[1])
      start_time == iso_to_unixtime(c.dtstart[1])
  IN [end_time |-> IF end_time = start_time
                     THEN ZeroedEndTime ELSE PyInt(end_time),
      link |-> c.url[1],
      mod_time |-> iso_to_unixtime(c.last_modified[1]),
      resolved |-> is_resolved(c.description[1]),
      start_time |-> start_time,
      title |-> sanitize_text(c.summary[1])]

\* for component in ical_feed.walk(): from component i on, with the
\* records appended so far.
RECURSIVE ParseLoop(_, _, _)
\* A faulty event is skipped and the loop goes on (not the code).
RECURSIVE ParseLoop_skips(_, _, _)
ParseLoop_skips(cs, i, acc) ==
  IF i > Len(cs) THEN [raised |-> "none", outages |-> acc]
  ELSE IF cs[i].name # "VEVENT" THEN ParseLoop_skips(cs, i + 1, acc)
  ELSE IF EventRaises(cs[i]) # "none" THEN ParseLoop_skips(cs, i + 1, acc)
  ELSE ParseLoop_skips(cs, i + 1, Append(acc, EventRecord(cs[i])))

ParseLoop(cs, i, acc) ==
  IF i > Len(cs) THEN [raised |-> "none", outages |-> acc]
  ELSE IF cs[i].name # "VEVENT" THEN ParseLoop(cs, i + 1, acc)
  ELSE IF EventRaises(cs[i]) # "none"
    THEN [raised |-> EventRaises(cs[i]), outages |-> <<>>]
  ELSE ParseLoop(cs, i + 1, Append(acc, EventRecord(cs[i])))

\* raise Exception("Calendar feed not found!")
FeedNotFound == "Exception: Calendar feed not found!"

\* parse_ical(source), source being file f of the working directory d.
parse_ical(d, f) ==
  IF ~d[f].exists THEN [raised |-> FeedNotFound, outages |-> <<>>]
  ELSE IF ~d[f].content.calendar
    THEN [raised |-> NotICal, outages |-> <<>>]
  ELSE ParseLoop(d[f].content.components, 1, <<>>)

(***************************************************************************)
(* The working directory.                                                  *)
(***************************************************************************)
NoFile == [exists |-> FALSE]

\* A file with its bytes and its modification time.
File(content, mtime) == [exists |-> TRUE, content |-> content, mtime |-> mtime]

cache_file == "cache"
notifications_file == "notifications.xml"
temp_file == "notifications-new.xml"

\* The working directory before the first run.
EmptyDir == [f \in {cache_file, notifications_file, temp_file} |-> NoFile]

(***************************************************************************)
(* create_notifications and notifications_to_xml.  A text is the record of *)
(* its parts; a part the code leaves out is <<>>.  The icon, timeout and   *)
(* urgency of a widget are those of settings['states'][state]: the widget  *)
(* holds the state.                                                        *)
(***************************************************************************)
\* strftime("%B %d at %I:%M") + strftime("%p").lower(): the seconds (and the
\* year) are dropped.
format_date(unixtime) == unixtime \div MinuteLength

cli_text == "Please see the following URL for more information:"
gui_text == "Right click the outages toolbar icon for more information."

\* The entries of one completed outage.
CompletedGui(o) ==
  [state |-> "completed", title |-> o.title,
   tooltip |-> [title |-> o.title, text |-> " is now complete.",
                start |-> <<>>, until |-> <<>>, link |-> <<>>,
                more |-> gui_text]]
CompletedConsole(o) ==
  [title |-> o.title, text |-> " is now complete.", start |-> <<>>,
   until |-> <<>>, more |-> cli_text, link |-> <<o.link>>]

\* The entries of one scheduled outage.
ScheduledGui(o) ==
  [state |-> "scheduled", title |-> o.title,
   tooltip |-> [title |-> o.title, text |-> " is scheduled to start on ",
                start |-> <<format_date(o.start_time)>>, until |-> <<>>,
                link |-> <<o.link>>, more |-> gui_text]]
ScheduledConsole(o) ==
  [title |-> o.title, text |-> " is scheduled to start on ",
   start |-> <<format_date(o.start_time)>>, until |-> <<>>,
   more |-> cli_text, link |-> <<o.link>>]

\* The clause is added whatever the end time (not the code).
Until_always(o) == <<format_date(o.end_time.int)>>

\* end_time = " until " + format_date(...) if active['end_time'] != 0,
\* else "".
Until(o) ==
  IF PyNeInt(o.end_time, 0) THEN <<format_date(o.end_time.int)>> ELSE <<>>

\* The entries of one active outage.
ActiveGui(o) ==
  [state |-> "active", title |-> o.title,
   tooltip |-> [title |-> o.title, text |-> " is in progress",
                start |-> <<>>, until |-> Until(o), link |-> <<>>,
                more |-> gui_text]]
ActiveConsole(o) ==
  [title |-> o.title, text |-> " is in progress", start |-> <<>>,
   until |-> Until(o), more |-> cli_text, link |-> <<o.link>>]

\* The three loops: completed, then scheduled, then active.
create_notifications(os, sorted) ==
  LET c == sorted["completed"]
      sch == sorted["scheduled"]
      a == sorted["active"]
  IN [gui |-> [k \in 1..Len(c) |-> CompletedGui(os[c[k]])]
              \o [k \in 1..Len(sch) |-> ScheduledGui(os[sch[k]])]
              \o [k \in 1..Len(a) |-> ActiveGui(os[a[k]])],
      console |-> [k \in 1..Len(c) |-> CompletedConsole(os[c[k]])]
                  \o [k \in 1..Len(sch) |-> ScheduledConsole(os[sch[k]])]
                  \o [k \in 1..Len(a) |-> ActiveConsole(os[a[k]])]]

\* str() of an int or a str.
str(v) == IF v.type = "int" THEN ToString(v.int) ELSE v.str

\* The bytes outages_to_xml writes: the root 'events' with one item per
\* outage.  get_updates never calls it.
outages_to_xml(os) ==
  [root |-> "events",
   items |-> [i \in 1..Len(os) |->
                [title |-> os[i].title,
                 link |-> os[i].link,
                 resolved |-> IF os[i].resolved THEN "True" ELSE "False",
                 start_time |-> ToString(os[i].start_time),
                 end_time |-> str(os[i].end_time),
                 mod_time |-> ToString(os[i].mod_time)]]]

\* The bytes notifications_to_xml writes: the whole document.
Xml(n) == [complete |-> TRUE, messages |-> n.console, widgets |-> n.gui]

\* The bytes of the output file between open(output_file, 'w') and the end
\* of tree.write: not yet a document.
Truncated == [complete |-> FALSE, messages |-> <<>>, widgets |-> <<>>]

\* st_size of a document: documents have the same size when they differ
\* only in the dates they show (same states, same parts).
XmlSize(x) ==
  [k \in 1..Len(x.widgets) |->
     <<x.widgets[k].state, Len(x.widgets[k].tooltip.start),
       Len(x.widgets[k].tooltip.until)>>]

(***************************************************************************)
(* The feeds and settings the model draws from.                            *)
(***************************************************************************)
Stamps(utcs) == [wall : 0..MaxWall, utc : utcs]

\* Events that have every property.
WellFormedEvents ==
  [name : {"VEVENT"},
   description : {<<<<"Network", "down">>>>, <<<<"Network", "RESOLVED">>>>},
   dtend : {<<t>> : t \in Stamps(BOOLEAN)},
   url : {<<"http://outage">>},
   last_modified : {<<[wall |-> 0, utc |-> TRUE]>>},
   dtstart : {<<t>> : t \in Stamps({FALSE})},
   summary : {<<<<"a", "!", "b">>>>}]

Properties ==
  {"description", "dtend", "url", "last_modified", "dtstart", "summary"}

\* Events that lack one property.
FaultyEvents ==
  LET e == CHOOSE w \in WellFormedEvents :
             w.dtend[1].wall # w.dtstart[1].wall
  IN {[e EXCEPT ![p] = <<>>] : p \in Properties}

\* A component that is no event.
OtherComponents ==
  {[name |-> "VTIMEZONE", description |-> <<>>, dtend |-> <<>>, url |-> <<>>,
    last_modified |-> <<>>, dtstart |-> <<>>, summary |-> <<>>]}

Calendar(cs) == [calendar |-> TRUE, components |-> cs]
NotACalendar == [calendar |-> FALSE, components |-> <<>>]

ParseFeeds ==
  {NotACalendar} \cup
  {Calendar(cs) :
     cs \in SeqUpTo(WellFormedEvents \cup FaultyEvents \cup OtherComponents,
                    MaxComponents)}

ParseSettings ==
  [scope_ahead : {MaxScope}, scope_past : 0..MaxScope, url_timeout : {1}]

(***************************************************************************)
(* get_updates, step by step.                                              *)
(***************************************************************************)
\* filecmp.cmp(f1, f2), shallow: equal (size, mtime) signatures are taken
\* for equal files, different sizes for different files, and only then are
\* the bytes compared.
filecmp(f1, f2) ==
  IF XmlSize(f1.content) = XmlSize(f2.content) /\ f1.mtime = f2.mtime
    THEN TRUE
  ELSE IF XmlSize(f1.content) # XmlSize(f2.content) THEN FALSE
  ELSE f1.content = f2.content

\* threshold < now is the test (not the code).
within_grace_period_le(d, f, timeout, now) ==
  IF ~d[f].exists THEN TRUE
  ELSE d[f].mtime + timeout >= now

\* Without a cache file the grace period is over (not the code).
within_grace_period_needs_file(d, f, timeout, now) ==
  IF ~d[f].exists THEN FALSE
  ELSE d[f].mtime + timeout > now

\* within_grace_period(cache_file, timeout) at time now.
within_grace_period(d, f, timeout, now) ==
  IF ~d[f].exists THEN TRUE
  ELSE d[f].mtime + timeout > now

\* raise Exception(connection_msg)
UnableToConnect == "Exception: Unable to connect to OpenScholar"

\* An outage that starts at time 0 and ends after every other one, late
\* enough for its end to format unlike theirs.
LateEvents ==
  {[name |-> "VEVENT",
    description |-> <<<<"Network", "down">>>>,
    dtend |-> <<[wall |-> MaxWall + MinuteLength - 1, utc |-> FALSE]>>,
    url |-> <<"http://outage">>,
    last_modified |-> <<[wall |-> 0, utc |-> TRUE]>>,
    dtstart |-> <<[wall |-> 0, utc |-> FALSE]>>,
    summary |-> <<<<"a", "!", "b">>>>]}

\* The events of the feeds a run may download: every property present and
\* no UTC marker, or one property missing.
RunEvents ==
  {e \in WellFormedEvents : ~e.dtend[1].utc}
    \cup LateEvents
    \cup {e \in FaultyEvents : e.summary = <<>>}

\* The bytes a run may download.
RunFeeds ==
  {NotACalendar, Calendar(<<>>)} \cup {Calendar(<<e>>) : e \in RunEvents}

RunSettings ==
  [scope_ahead : {MaxScope}, scope_past : {MaxScope},
   url_timeout : 1..MaxTimeout]

Init ==
  /\ clock = 0
  /\ settings \in RunSettings
  /\ fs = EmptyDir
  /\ pc = "idle"
  /\ pre = EmptyDir
  /\ within_grace = FALSE
  /\ cached = FALSE
  /\ outages = <<>>
  /\ sorted_outages = None
  /\ notifications = None
  /\ feed_updated = FALSE
  /\ raised = "none"

\* A second passes.
Tick ==
  /\ clock < MaxTime
  /\ clock' = clock + 1
  /\ UNCHANGED <<settings, fs, pc, pre, within_grace, cached, outages,
                 sorted_outages, notifications, feed_updated, raised>>

\* A new process calls get_updates, which calls within_grace_period.
GetUpdates ==
  /\ pc \in {"idle", "returned", "raised"}
  /\ pre' = fs
  /\ within_grace' =
       within_grace_period(fs, cache_file, settings.url_timeout, clock)
  /\ cached' = FALSE
  /\ outages' = <<>>
  /\ sorted_outages' = None
  /\ notifications' = None
  /\ feed_updated' = FALSE
  /\ raised' = "none"
  /\ pc' = "cache_feed"
  /\ UNCHANGED <<clock, settings, fs>>

\* cache_feed: urlopen succeeds and the feed is written to the cache file.
CacheFeedOk ==
  /\ pc = "cache_feed"
  /\ \E feed \in RunFeeds :
       fs' = [fs EXCEPT ![cache_file] = File(feed, clock)]
  /\ cached' = TRUE
  /\ pc' = "parse_ical"
  /\ UNCHANGED <<clock, settings, pre, within_grace, outages, sorted_outages,
                 notifications, feed_updated, raised>>

\* The cache file is opened for writing before urlopen is called (not the
\* code).
CacheFeedFail_opens_first ==
  /\ pc = "cache_feed"
  /\ fs' = [fs EXCEPT ![cache_file] = File(NotACalendar, clock)]
  /\ IF ~within_grace
       THEN /\ raised' = UnableToConnect
            /\ pc' = "raised"
       ELSE /\ raised' = raised
            /\ pc' = "commit"
  /\ UNCHANGED <<clock, settings, pre, within_grace, cached, outages,
                 sorted_outages, notifications, feed_updated>>

\* The failure is tolerated whatever the grace period (not the code).
CacheFeedFail_never_raises ==
  /\ pc = "cache_feed"
  /\ pc' = "commit"
  /\ UNCHANGED <<clock, settings, fs, pre, within_grace, cached, outages,
                 sorted_outages, notifications, feed_updated, raised>>

\* cache_feed: urlopen raises HTTPError or URLError, the two failures the
\* code names (a failure of feed.read() after the cache file is opened is
\* not modelled).  Past the grace period cache_feed raises; within it, it
\* returns False and get_updates sets feed_updated = False.
CacheFeedFail ==
  /\ pc = "cache_feed"
  /\ IF ~within_grace
       THEN /\ raised' = UnableToConnect
            /\ pc' = "raised"
       ELSE /\ raised' = raised
            /\ pc' = "commit"
  /\ UNCHANGED <<clock, settings, fs, pre, within_grace, cached, outages,
                 sorted_outages, notifications, feed_updated>>

\* notifications = self.create_notifications(sorted_outages)
CreateNotifications ==
  /\ pc = "create_notifications"
  /\ notifications' = create_notifications(outages, sorted_outages)
  /\ pc' = "notifications_to_xml"
  /\ UNCHANGED <<clock, settings, fs, pre, within_grace, cached, outages,
                 sorted_outages, feed_updated, raised>>

\* The published file is opened for writing (not the code).
XmlOpen_in_place ==
  /\ pc = "notifications_to_xml"
  /\ fs' = [fs EXCEPT ![notifications_file] = File(Truncated, clock)]
  /\ pc' = "tree.write"
  /\ UNCHANGED <<clock, settings, pre, within_grace, cached, outages,
                 sorted_outages, notifications, feed_updated, raised>>

\* notifications_to_xml(notifications, temp_file): open(output_file, 'w').
XmlOpen ==
  /\ pc = "notifications_to_xml"
  /\ fs' = [fs EXCEPT ![temp_file] = File(Truncated, clock)]
  /\ pc' = "tree.write"
  /\ UNCHANGED <<clock, settings, pre, within_grace, cached, outages,
                 sorted_outages, notifications, feed_updated, raised>>

\* notifications_to_xml: tree.write(file, ...) and the end of the with block.
XmlWrite ==
  /\ pc = "tree.write"
  /\ fs' = [fs EXCEPT ![temp_file] = File(Xml(notifications), clock)]
  /\ pc' = "compare"
  /\ UNCHANGED <<clock, settings, pre, within_grace, cached, outages,
                 sorted_outages, notifications, feed_updated, raised>>

\* An update is forced whatever the files hold (not the code).
FeedUpdated_always(d) == TRUE

\* The comparison is made whether or not notifications exist (not the code).
FeedUpdated_no_force(d) ==
  IF ~d[notifications_file].exists THEN FALSE
  ELSE ~filecmp(d[temp_file], d[notifications_file])

\* The result of filecmp.cmp is taken without its "not" (not the code).
FeedUpdated_inverted(d) ==
  IF ~d[notifications_file].exists THEN TRUE
  ELSE filecmp(d[temp_file], d[notifications_file])

\* feed_updated, after a successful cache_feed.
FeedUpdated(d) ==
  IF ~d[notifications_file].exists THEN TRUE
  ELSE ~filecmp(d[temp_file], d[notifications_file])

Compare ==
  /\ pc = "compare"
  /\ feed_updated' = FeedUpdated(fs)
  /\ pc' = "commit"
  /\ UNCHANGED <<clock, settings, fs, pre, within_grace, cached, outages,
                 sorted_outages, notifications, raised>>

\* shutil.move(temp_file, notifications_file): a rename within the working
\* directory.
MoveTemp ==
  /\ pc = "commit"
  /\ feed_updated
  /\ fs' = [fs EXCEPT ![notifications_file] = fs[temp_file],
                      ![temp_file] = NoFile]
  /\ pc' = "returned"
  /\ UNCHANGED <<clock, settings, pre, within_grace, cached, outages,
                 sorted_outages, notifications, feed_updated, raised>>

\* No updates: os.remove(temp_file) if the file is there.
RemoveTemp ==
  /\ pc = "commit"
  /\ ~feed_updated
  /\ fs' = [fs EXCEPT ![temp_file] = NoFile]
  /\ pc' = "returned"
  /\ UNCHANGED <<clock, settings, pre, within_grace, cached, outages,
                 sorted_outages, notifications, feed_updated, raised>>

\* No updates: os.remove(temp_file) raises OSError, which is logged.
RemoveFails ==
  /\ pc = "commit"
  /\ ~feed_updated
  /\ fs[temp_file].exists
  /\ pc' = "returned"
  /\ UNCHANGED <<clock, settings, fs, pre, within_grace, cached, outages,
                 sorted_outages, notifications, feed_updated, raised>>

(***************************************************************************)
(* sort_outages on its own: any list of records with int fields, any now,  *)
(* any scopes.                                                             *)
(***************************************************************************)
SortRecords ==
  [end_time : {PyInt(n) : n \in 0..MaxTime},
   link : {"http://outage"},
   mod_time : {0},
   resolved : BOOLEAN,
   start_time : 0..MaxTime,
   title : {"Outage"}]

SortSettings ==
  [scope_ahead : 0..MaxScope, scope_past : 0..MaxScope, url_timeout : {1}]

SortInit ==
  /\ clock \in 0..MaxTime
  /\ settings \in SortSettings
  /\ outages \in SeqUpTo(SortRecords, MaxRecords)
  /\ pc = "sort_outages"
  /\ fs = EmptyDir
  /\ pre = EmptyDir
  /\ within_grace = FALSE
  /\ cached = FALSE
  /\ sorted_outages = None
  /\ notifications = None
  /\ feed_updated = FALSE
  /\ raised = "none"

\* sorted_outages = self.sort_outages(outages), with now = int(time.time())
SortCall ==
  /\ pc = "sort_outages"
  /\ LET r == sort_outages(outages, clock, settings)
     IN /\ raised' = r.raised
        /\ sorted_outages' = r.sorted
        /\ pc' = IF r.raised = "none" THEN "create_notifications" ELSE "raised"
  /\ UNCHANGED <<clock, settings, fs, pre, within_grace, cached, outages,
                 notifications, feed_updated>>

SortNext == SortCall

SpecSort == SortInit /\ [][SortNext]_vars

(***************************************************************************)
(* parse_ical followed by sort_outages on their own: any cache file, any   *)
(* now, any past scope.                                                    *)
(***************************************************************************)
ParseInit ==
  /\ clock \in 0..MaxTime
  /\ settings \in ParseSettings
  /\ fs \in {[EmptyDir EXCEPT ![cache_file] = c] :
               c \in {NoFile} \cup {File(b, 0) : b \in ParseFeeds}}
  /\ pc = "parse_ical"
  /\ pre = EmptyDir
  /\ within_grace = FALSE
  /\ cached = FALSE
  /\ outages = <<>>
  /\ sorted_outages = None
  /\ notifications = None
  /\ feed_updated = FALSE
  /\ raised = "none"

\* An exception of parse_ical is swallowed and the run goes on with no
\* outages (not the code).
ParseCall_swallows ==
  /\ pc = "parse_ical"
  /\ outages' = parse_ical(fs, cache_file).outages
  /\ pc' = "sort_outages"
  /\ UNCHANGED <<clock, settings, fs, pre, within_grace, cached,
                 sorted_outages, notifications, feed_updated, raised>>

\* outages = self.parse_ical(cache_file)
ParseCall ==
  /\ pc = "parse_ical"
  /\ LET r == parse_ical(fs, cache_file)
     IN /\ raised' = r.raised
        /\ outages' = r.outages
        /\ pc' = IF r.raised = "none" THEN "sort_outages" ELSE "raised"
  /\ UNCHANGED <<clock, settings, fs, pre, within_grace, cached,
                 sorted_outages, notifications, feed_updated>>

ParseNext == ParseCall \/ SortCall

SpecParse == ParseInit /\ [][ParseNext]_vars

(***************************************************************************)
(* The runs of get_updates, one process at a time, from an empty working   *)
(* directory.                                                              *)
(***************************************************************************)
Next ==
  \/ Tick
  \/ GetUpdates
  \/ CacheFeedOk
  \/ CacheFeedFail
  \/ ParseCall
  \/ SortCall
  \/ CreateNotifications
  \/ XmlOpen
  \/ XmlWrite
  \/ Compare
  \/ MoveTemp
  \/ RemoveTemp
  \/ RemoveFails

Spec == Init /\ [][Next]_vars

(***************************************************************************)
(* Claims about sort_outages (checked under SpecSort).                     *)
(***************************************************************************)
\* sort_outages has returned its buckets; it has raised.
SortReturned == pc = "create_notifications"
SortRaised == pc = "raised" /\ raised \in {CantEnd, StrMinusInt}

\* Record i of the input list is in bucket b of the returned buckets.
InBucket(b, i) ==
  \E k \in 1..Len(sorted_outages[b]) : sorted_outages[b][k] = i

\* The conditions as the decision table states them.
TableStarted(o) == o.start_time <= clock
TableEnded(o) == o.end_time.int <= clock
TableHasEndTime(o) == o.end_time.int # 0
TableActive(o) ==
  TableStarted(o) /\ (~TableEnded(o) \/ ~TableHasEndTime(o)) /\ ~o.resolved
TableCompleted(o) ==
  /\ (TableStarted(o) /\ TableEnded(o)) \/ o.resolved
  /\ Abs(o.end_time.int - clock) < settings.scope_past
TableScheduled(o) ==
  /\ ~TableStarted(o) /\ ~o.resolved
  /\ o.start_time - clock < settings.scope_ahead
TableViolation(o) ==
  TableHasEndTime(o) /\ TableEnded(o) /\ ~TableStarted(o)

\* C1: when sort_outages returns, every record is in 'active' iff the active
\* row of the decision table holds of it, otherwise in 'completed' iff the
\* completed row holds, otherwise in 'scheduled' iff the scheduled row
\* holds, and otherwise in no bucket.
C1_DecisionTable ==
  SortReturned =>
    \A i \in 1..Len(outages) :
      LET o == outages[i]
      IN /\ InBucket("active", i) <=> TableActive(o)
         /\ InBucket("completed", i) <=>
              (~TableActive(o) /\ TableCompleted(o))
         /\ InBucket("scheduled", i) <=>
              (~TableActive(o) /\ ~TableCompleted(o) /\ TableScheduled(o))

\* A returned sort in which a record that matches both the active and the
\* completed row went to 'active', and another record went to 'scheduled'.
C1_Witness ==
  /\ SortReturned
  /\ \E i, j \in 1..Len(outages) :
       /\ TableActive(outages[i]) /\ TableCompleted(outages[i])
       /\ InBucket("active", i)
       /\ InBucket("scheduled", j)

\* C2: when sort_outages returns, every input record is in at most one
\* bucket and at most once in it.
C2_Disjoint ==
  SortReturned =>
    \A i \in 1..Len(outages) :
      Cardinality({bk \in {<<b, k>> : b \in BucketNames, k \in 1..Len(outages)} :
                     /\ bk[2] <= Len(sorted_outages[bk[1]])
                     /\ sorted_outages[bk[1]][bk[2]] = i}) <= 1

\* A returned sort of two records with equal fields, one of which matches
\* two rows of the table: each is in 'active', once.
C2_Witness ==
  /\ SortReturned
  /\ Len(outages) = 2 /\ outages[1] = outages[2]
  /\ TableActive(outages[1]) /\ TableCompleted(outages[1])
  /\ sorted_outages["active"] = <<1, 2>>

\* C3: sort_outages raises "Event can't end without starting!" iff some
\* input record has an end time that is at or before now while its start is
\* after now; when it raises no buckets are returned; it raises nothing
\* else.
C3_Violation ==
  (SortReturned \/ SortRaised) =>
    /\ raised \in {"none", CantEnd}
    /\ raised = CantEnd <=>
         \E i \in 1..Len(outages) : TableViolation(outages[i])
    /\ raised = CantEnd => sorted_outages = None
    /\ raised = "none" => sorted_outages # None

\* A sort that raised on its second record, the first being sortable.
C3_Witness ==
  /\ SortRaised /\ raised = CantEnd
  /\ Len(outages) = 2
  /\ ~TableViolation(outages[1]) /\ TableActive(outages[1])
  /\ TableViolation(outages[2])

(***************************************************************************)
(* Claims about parse_ical followed by sort_outages (checked under         *)
(* SpecParse).                                                             *)
(***************************************************************************)
\* The events of the cache file, in document order: when parse_ical
\* returns, record k of its list was made from event k.
CachedEvents ==
  SelectSeq(fs[cache_file].content.components, LAMBDA c : c.name = "VEVENT")

\* Event e's converted end time equals its converted start time.
EndIsStart(e) == iso_to_unixtime(e.dtend[1]) = iso_to_unixtime(e.dtstart[1])

\* C4: when parse_ical returns, the record of every event whose converted
\* end time equals its converted start time has end_time = 0, the int.
C4_SentinelZero ==
  pc = "sort_outages" =>
    \A k \in 1..Len(outages) :
      EndIsStart(CachedEvents[k]) => outages[k].end_time = PyInt(0)

\* C5: when sort_outages ends on a list with the record of a resolved event
\* whose end equals its start and whose start is at or before now, it has
\* not failed on that record's end_time, and if it returned, the record is
\* in 'completed' iff abs(0 - now) < scope_past and in no other bucket.
C5_ResolvedWithoutEnd ==
  (SortReturned \/ SortRaised) =>
    \A k \in 1..Len(outages) :
      LET e == CachedEvents[k]
      IN (/\ EndIsStart(e)
          /\ is_resolved(e.description[1])
          /\ iso_to_unixtime(e.dtstart[1]) <= clock)
         => /\ raised # StrMinusInt
            /\ raised = "none" =>
                 /\ InBucket("completed", k) <=>
                      Abs(0 - clock) < settings.scope_past
                 /\ ~InBucket("active", k)
                 /\ ~InBucket("scheduled", k)

(***************************************************************************)
(* Claims about get_updates (checked under Spec).  pre is the working      *)
(* directory as the run found it.                                          *)
(***************************************************************************)
\* The run fetched the feed and has rendered its notifications.
Rendered ==
  /\ cached
  /\ pc \in {"notifications_to_xml", "tree.write", "compare", "commit",
             "returned"}

\* C6: in a run that fetched the feed and rendered the very bytes of the
\* published file it found, the published file stays as it was (bytes and
\* modification time) at every step, and the run decides
\* feed_updated = False.
C6_Unchanged ==
  (/\ Rendered
   /\ pre[notifications_file].exists
   /\ Xml(notifications) = pre[notifications_file].content)
  => /\ fs[notifications_file] = pre[notifications_file]
     /\ pc \in {"commit", "returned"} => ~feed_updated

\* A finished run that rendered, later than the published file was
\* written, the notification the published file holds.
C6_Witness ==
  /\ pc = "returned" /\ cached
  /\ pre[notifications_file].exists
  /\ Xml(notifications) = pre[notifications_file].content
  /\ Len(notifications.gui) = 1
  /\ pre[notifications_file].mtime < clock
  /\ ~fs[temp_file].exists

\* C7: in a run that fetched, parsed and sorted and found no published
\* file, feed_updated is True once decided, and when the run has returned
\* the published file exists and holds the bytes the run rendered.
C7_FirstRun ==
  (/\ Rendered
   /\ ~pre[notifications_file].exists)
  => /\ pc \in {"commit", "returned"} => feed_updated
     /\ pc = "returned" =>
          /\ fs[notifications_file].exists
          /\ fs[notifications_file].content = Xml(notifications)

\* A finished first run whose notification set is empty.
C7_Witness ==
  /\ pc = "returned" /\ cached
  /\ ~pre[notifications_file].exists
  /\ notifications.gui = <<>> /\ notifications.console = <<>>
  /\ fs[notifications_file].content = Xml(notifications)

\* C8: in every step, a published file that exists still exists after the
\* step, and if the step changes the published file, it makes it the temp
\* file, a whole document, which is then no longer at the temp path.
C8_NeverPartial ==
  [][/\ fs[notifications_file].exists => fs'[notifications_file].exists
     /\ fs'[notifications_file] # fs[notifications_file] =>
          /\ fs[temp_file].exists
          /\ fs[temp_file].content.complete
          /\ fs'[notifications_file] = fs[temp_file]
          /\ ~fs'[temp_file].exists]_vars

\* The temp file is open and not yet written while the published file
\* holds the whole of an earlier, different document.
C8_Witness ==
  /\ pc = "tree.write"
  /\ fs[temp_file].content = Truncated
  /\ fs[notifications_file].exists
  /\ fs[notifications_file].content.complete
  /\ fs[notifications_file].content # Xml(notifications)

\* C9 as stated: get_updates' call of within_grace_period returns True when
\* there is no cache file, and otherwise True iff now is not past
\* mtime + timeout (True at now = mtime + timeout).
C9_NotYetPassed ==
  [][(pc # "cache_feed" /\ pc' = "cache_feed") =>
       within_grace' =
         (~fs[cache_file].exists
            \/ ~(clock > fs[cache_file].mtime + settings.url_timeout))]_vars

\* C9, amended: get_updates' call of within_grace_period returns True when
\* there is no cache file, and otherwise True iff now is before
\* mtime + timeout (False at now = mtime + timeout).
C9_Before ==
  [][(pc # "cache_feed" /\ pc' = "cache_feed") =>
       within_grace' =
         (~fs[cache_file].exists
            \/ clock < fs[cache_file].mtime + settings.url_timeout)]_vars

\* within_grace_period has returned False at now = mtime + timeout (before
\* that second it returns True).
C9_Witness ==
  /\ pc = "cache_feed"
  /\ fs[cache_file].exists
  /\ clock = fs[cache_file].mtime + settings.url_timeout
  /\ ~within_grace

\* The fetch of the run failed within the grace period.
Tolerated == within_grace /\ ~cached /\ pc \in {"commit", "returned", "raised"}

ParseWouldRaise ==
  pc = "parse_ical" /\ parse_ical(fs, cache_file).raised # "none"
SortWouldRaise ==
  pc = "sort_outages" /\ sort_outages(outages, clock, settings).raised # "none"

\* C12: the step in which parse_ical or sort_outages raises ends the run
\* with that exception, and in every run that ended with an exception of
\* parse_ical or sort_outages the published file and the temp file are as
\* the run found them.
C12_Propagates ==
  [][/\ (ParseWouldRaise /\ pc' # pc) =>
          (pc' = "raised" /\ raised' = parse_ical(fs, cache_file).raised)
     /\ (SortWouldRaise /\ pc' # pc) =>
          (pc' = "raised"
             /\ raised' = sort_outages(outages, clock, settings).raised)
     /\ (pc' = "raised" /\ cached') =>
          /\ raised' \notin {"none", UnableToConnect}
          /\ fs'[notifications_file] = pre'[notifications_file]
          /\ fs'[temp_file] = pre'[temp_file]]_vars

\* A run that found notifications published raised on an event that lacks
\* its summary.
C12_Witness ==
  /\ pc = "raised" /\ cached
  /\ raised = NoneHasNo("encode")
  /\ pre[notifications_file].exists
  /\ fs[notifications_file] = pre[notifications_file]
  /\ ~fs[temp_file].exists

\* The set of the records of a list.
Records(os) == {os[i] : i \in 1..Len(os)}

\* No record of the list makes sort_outages raise, whatever the time of the
\* call.
SortsAtAnyTime(os) ==
  \A i \in 1..Len(os) :
    /\ os[i].end_time.type = "int"
    /\ ~(os[i].end_time.int # 0 /\ os[i].end_time.int < os[i].start_time)

\* The current run has parsed the records that the cache file it found
\* holds, and the run that wrote that cache file was a successful one.
UnchangedDataSet ==
  /\ cached
  /\ pc \in {"sort_outages", "create_notifications", "notifications_to_xml",
             "tree.write", "compare", "commit", "returned"}
  /\ pre[cache_file].exists
  /\ parse_ical(pre, cache_file).raised = "none"
  /\ Records(parse_ical(pre, cache_file).outages) = Records(outages)
  /\ SortsAtAnyTime(outages)

\* C13 as stated: a run that parsed the same set of records as the previous
\* successful run leaves the published file as it found it.
C13_OnlyWhenDataChanges ==
  UnchangedDataSet => fs[notifications_file] = pre[notifications_file]

\* C13, amended: a step replaces the published file only at the end of a
\* run that fetched the feed, by the run's rendering, and only when that
\* rendering differs from the bytes published (the rendering depends on
\* the time of the run as well as on the records).
C13_OnlyWhenRenderingDiffers ==
  [][fs'[notifications_file] # fs[notifications_file] =>
       /\ cached /\ pc = "commit" /\ pc' = "returned"
       /\ fs'[notifications_file].content = Xml(notifications)
       /\ fs[notifications_file].exists =>
            Xml(notifications) # fs[notifications_file].content]_vars

\* A run over the feed of the previous successful run, at a later time,
\* has replaced the published file.
C13_Witness ==
  /\ pc = "returned" /\ UnchangedDataSet
  /\ pre[cache_file].content = fs[cache_file].content
  /\ pre[cache_file].mtime < fs[cache_file].mtime
  /\ pre[notifications_file].exists
  /\ fs[notifications_file].content # pre[notifications_file].content
  /\ fs[notifications_file].content = Xml(notifications)

\* C14: when a run that fetched the feed has returned, some file of the
\* working directory is the parsed-outages snapshot (root 'events') of the
\* records the run parsed.
C14_ParsedSnapshot ==
  (pc = "returned" /\ cached) =>
    \E f \in DOMAIN fs :
      /\ fs[f].exists
      /\ fs[f].content = outages_to_xml(outages)

\* The run has returned having found no change, and there was a temp file
\* to delete (the one it wrote, or one it found).
NoChange ==
  /\ pc = "returned" /\ ~feed_updated
  /\ cached \/ pre[temp_file].exists

\* C15: when a run has found no change, the temp file is retained if the
\* 'preserve versions' option is set.  _get_settings reads no such option
\* from the conf file, so a run is the same whatever value the conf file
\* gives it: the claim is stated for both values.
C15_PreserveVersions ==
  \A preserve_versions \in BOOLEAN :
    NoChange => (preserve_versions => fs[temp_file].exists)

\* The position, in the gui and console lists, of the entry of the k-th
\* active outage: the completed and the scheduled ones come first.
ActiveEntry(k) ==
  Len(sorted_outages["completed"]) + Len(sorted_outages["scheduled"]) + k

\* C16: in the notifications a run has created, the widget entry of every
\* record of the 'active' bucket has the clause " until <formatted end
\* time>" iff the record's end_time != 0, and the console entry of the
\* record has the same clause or, like the widget entry, none.
C16_UntilClause ==
  Rendered =>
    \A k \in 1..Len(sorted_outages["active"]) :
      LET o == outages[sorted_outages["active"][k]]
          widget == notifications.gui[ActiveEntry(k)]
          console == notifications.console[ActiveEntry(k)]
      IN /\ widget.state = "active"
         /\ widget.tooltip.until =
              (IF o.end_time # PyInt(0)
                 THEN <<format_date(o.end_time.int)>> ELSE <<>>)
         /\ console.until = widget.tooltip.until

\* Notifications created for an active outage that has an end time: both
\* forms have the clause.
C16_Witness ==
  /\ Rendered
  /\ Len(sorted_outages["active"]) = 1
  /\ outages[sorted_outages["active"][1]].end_time = PyInt(1)
  /\ notifications.gui[1].tooltip.until = <<format_date(1)>>
  /\ notifications.console[1].until = <<format_date(1)>>

\* Notifications created for an active outage without an end time: neither
\* form has the clause.
C16_NoEndTime ==
  /\ Rendered
  /\ Len(sorted_outages["active"]) = 1
  /\ outages[sorted_outages["active"][1]].end_time = PyInt(0)
  /\ notifications.gui[1].tooltip.until = <<>>
  /\ notifications.console[1].until = <<>>

\* Event e lacks one of its required properties.
LacksField(e) == \E p \in Properties : e[p] = <<>>

\* C17: when parse_ical has ended on a calendar one of whose events lacks
\* a required property, it has raised and the caller holds no records;
\* when it has returned, the caller holds one record for each event.
C17_NoPartialResults ==
  (pc \in {"sort_outages", "raised"} /\ fs[cache_file].exists
     /\ fs[cache_file].content.calendar) =>
    /\ (\E k \in 1..Len(CachedEvents) : LacksField(CachedEvents[k])) =>
         /\ pc = "raised"
         /\ raised \in {NoneHasNo("encode"), NoneHasNo("to_ical"), StrPlusNone}
         /\ outages = <<>>
    /\ pc = "sort_outages" => Len(outages) = Len(CachedEvents)

\* parse_ical has raised on the second event of a calendar whose first
\* event has every property.
C17_Witness ==
  /\ pc = "raised" /\ outages = <<>>
  /\ fs[cache_file].exists /\ fs[cache_file].content.calendar
  /\ Len(CachedEvents) = 2
  /\ ~LacksField(CachedEvents[1])
  /\ LacksField(CachedEvents[2])
  /\ raised = StrPlusNone

C19_PublishedIsRendering ==
  (pc = "returned" /\ cached) =>
    /\ fs[notifications_file].exists
    /\ fs[notifications_file].content = Xml(notifications)
    /\ fs[temp_file].exists => ~feed_updated

====
